---- MODULE Spec2Model ----
(***************************************************************************)
(* IniFileSettings of package walk: an in-memory map of string keys to     *)
(* string values backed by the flat text file settings.ini.                *)
(*                                                                         *)
(* Strings are sequences of one-character strings.  The disk is the        *)
(* settings directory (dirOnDisk), the settings file (fileOnDisk) and the  *)
(* file's bytes (content).  Every call of Load and Save takes the fault    *)
(* the filesystem answers it with as an input.                             *)
(***************************************************************************)
EXTENDS Integers, Sequences, FiniteSets, TLC

VARIABLES
    data,        \* ifs.data: the map[string]string of the store
    dirOnDisk,   \* the directory of settings.ini exists
    fileOnDisk,  \* settings.ini exists
    content,     \* the bytes of settings.ini (<<>> while it does not exist)
    lastOp,      \* the method called last: "New", "Get", "Put", "Load", "Save"
    lastKey,     \* the key argument of the last Get or Put
    lastVal,     \* the value argument of the last Put
    lastErr,     \* the os.Error the last call returned ("nil" for nil)
    ret,         \* what the last Get returned: <<val, ok>>
    fault,       \* the filesystem fault the last Load or Save met
    saved,       \* {the map the last Save wrote in full}, NoSave when the
                 \* file does not hold the full output of a Save
    overwrote,   \* the last Save that opened the file replaced the non-empty
                 \* output of an earlier Save that had succeeded
    ops          \* the number of calls made so far (counted by Spec only)

vars == <<data, dirOnDisk, fileOnDisk, content, lastOp, lastKey, lastVal,
          lastErr, ret, fault, saved, overwrote, ops>>

----------------------------------------------------------------------------
(* Bounds *)

MaxEntries == 2    \* Put adds no new key to a store of this many entries
MaxOps == 5        \* calls made in one run of Spec
MaxFileLen == 4    \* longest settings.ini found on disk at start
BufSize == 2       \* size of the bufio.Reader buffer (4096 in package bufio)

----------------------------------------------------------------------------
(* Characters and strings *)

SP == " "
EQ == "="
CR == "CR"
LF == "LF"

Alphabet == {"a", SP, EQ, CR, LF}

Strs(n) == UNION {[1..m -> Alphabet] : m \in 0..n}

Min(S) == CHOOSE x \in S : \A y \in S : x <= y
Max(S) == CHOOSE x \in S : \A y \in S : x >= y

\* s[lo:hi] of Go: 0-based, hi exclusive
Slice(s, lo, hi) == SubSeq(s, lo + 1, hi)

\* strings.IndexAny(s, chars): 0-based index of the first character of s that
\* is in chars, -1 when there is none
IndexAny(s, chars) ==
    LET hits == {i \in 1..Len(s) : s[i] \in chars}
    IN  IF hits = {} THEN -1 ELSE Min(hits) - 1

\* strings.Index(s, "="): 0-based index of the first sep in s, -1 when none
Index(s, sep) == IndexAny(s, {sep})

\* unicode.IsSpace on the alphabet
IsSpace(c) == c \in {SP, CR, LF}

\* strings.TrimSpace(s): s without its leading and trailing white space
TrimSpace(s) ==
    LET keep == {i \in 1..Len(s) : ~IsSpace(s[i])}
    IN  IF keep = {} THEN <<>> ELSE SubSeq(s, Min(keep), Max(keep))

----------------------------------------------------------------------------
(* The store *)

Empty == <<>>          \* make(map[string]string): the function of empty domain
NoSave == {}             \* saved is NoSave or the set of the one map saved
NoRet == "NoRet"
NoStr == <<>>

\* ifs.data[key] = val
Store(d, key, val) ==
    [x \in (DOMAIN d) \cup {key} |-> IF x = key THEN val ELSE d[x]]

\* val, ok := ifs.data[key]
Lookup(d, key) == IF key \in DOMAIN d THEN <<d[key], TRUE>> ELSE <<NoStr, FALSE>>

----------------------------------------------------------------------------
(* Reading *)

\* reader.ReadLine() of a bufio.Reader of BufSize bytes over content, pos
\* bytes of which are consumed: the line without its "\n" or "\r\n", or the
\* first part of a line that does not fit the buffer (isPrefix), or EOF.
ReadLine(cont, pos) ==
    LET rest == SubSeq(cont, pos + 1, Len(cont))
        win  == SubSeq(rest, 1, IF Len(rest) < BufSize THEN Len(rest) ELSE BufSize)
        i    == IndexAny(win, {LF})
    IN  IF Len(rest) = 0
        THEN [ln |-> <<>>, isPrefix |-> FALSE, err |-> "EOF", pos |-> pos]
        ELSE IF i >= 0
        THEN LET drop == IF i >= 1 /\ win[i] = CR THEN 2 ELSE 1
             IN  [ln |-> SubSeq(win, 1, i + 1 - drop), isPrefix |-> FALSE,
                  err |-> "nil", pos |-> pos + i + 1]
        ELSE IF Len(win) >= BufSize
        THEN IF win[BufSize] = CR
             THEN [ln |-> SubSeq(win, 1, BufSize - 1), isPrefix |-> TRUE,
                   err |-> "nil", pos |-> pos + BufSize - 1]
             ELSE [ln |-> win, isPrefix |-> TRUE, err |-> "nil",
                   pos |-> pos + BufSize]
        ELSE [ln |-> win, isPrefix |-> FALSE, err |-> "nil", pos |-> Len(cont)]

\* The two loops of the function Load hands to withFile.  d is ifs.data,
\* lineBytes the bytes of the line gathered so far, calls the number of
\* ReadLine calls made, failAt the call that meets a read error (0: none).
RECURSIVE readLoop(_, _, _, _, _, _)
readLoop(d, cont, pos, lineBytes, calls, failAt) ==
    IF calls + 1 = failAt
    THEN [data |-> d, err |-> "IOError"]
    ELSE LET r == ReadLine(cont, pos) IN
         IF r.err = "EOF"
         THEN [data |-> d, err |-> "nil"]
         ELSE LET lineStr == lineBytes \o r.ln IN
              IF r.isPrefix
              THEN readLoop(d, cont, r.pos, lineStr, calls + 1, failAt)
              ELSE LET assignIndex == Index(lineStr, EQ) IN
                   IF assignIndex = -1
                   THEN [data |-> d, err |-> "ParseError"]
                   ELSE LET key == TrimSpace(Slice(lineStr, 0, assignIndex))
                            val == TrimSpace(Slice(lineStr, assignIndex + 1, Len(lineStr)))
                        IN  readLoop(Store(d, key, val), cont, r.pos, <<>>,
                                     calls + 1, failAt)

----------------------------------------------------------------------------
(* Writing *)

\* fmt.Sprintf("%s=%s\n", key, val)
Line(key, val) == key \o <<EQ>> \o val \o <<LF>>

\* The orders in which "for key, val := range ifs.data" may visit the keys
Orders(S) ==
    {o \in [1..Cardinality(S) -> S] :
        \A i, j \in 1..Cardinality(S) : i # j => o[i] # o[j]}

\* What the loop of Save writes when it visits the keys in this order
RECURSIVE Output(_, _)
Output(d, order) ==
    IF order = <<>> THEN <<>>
    ELSE Line(Head(order), d[Head(order)]) \o Output(d, Tail(order))

----------------------------------------------------------------------------
(* The filesystem side of Load and Save *)

\* What the filesystem may answer a call with: AppDataPath() fails ("path"),
\* os.Stat fails though the file exists ("stat"), os.MkdirAll fails
\* ("mkdir"), os.OpenFile fails ("open"), a ReadLine fails ("read"), a
\* WriteString or the final Flush fails ("write").
LoadFaults == {"none", "path", "stat", "open", "read"}
SaveFaults == {"none", "path", "mkdir", "open", "write"}

\* A fileExists that answers "exists" whenever filePath() succeeds
fileExistsAlways(flt) ==
    IF flt = "path" THEN [exists |-> FALSE, err |-> "IOError"]
    ELSE [exists |-> TRUE, err |-> "nil"]

\* fileExists(): a failing filePath() is returned; a failing os.Stat, whatever
\* the reason, answers "does not exist" with no error.
fileExists(flt) ==
    IF flt = "path" THEN [exists |-> FALSE, err |-> "IOError"]
    ELSE IF flt = "stat" \/ ~fileOnDisk THEN [exists |-> FALSE, err |-> "nil"]
    ELSE [exists |-> TRUE, err |-> "nil"]

\* withFile up to the call of f: os.MkdirAll of the directory, then
\* os.OpenFile.  The error of filePath() is dropped, and MkdirAll of the
\* empty path fails.  create is O_CREATE among the flags.
withFile(flt, create) ==
    IF flt \in {"path", "mkdir"}
    THEN [err |-> "IOError", dir |-> dirOnDisk, opened |-> FALSE]
    ELSE IF flt = "open" \/ (~fileOnDisk /\ ~create)
    THEN [err |-> "IOError", dir |-> TRUE, opened |-> FALSE]
    ELSE [err |-> "nil", dir |-> TRUE, opened |-> TRUE]

----------------------------------------------------------------------------
(* Operations *)

NewIniFileSettings ==
    /\ data' = Empty
    /\ lastOp' = "New"
    /\ lastKey' = NoStr /\ lastVal' = NoStr /\ lastErr' = "nil"
    /\ ret' = NoRet /\ fault' = "none"
    /\ UNCHANGED <<dirOnDisk, fileOnDisk, content, saved, overwrote>>

Get(key) ==
    /\ ret' = Lookup(data, key)
    /\ lastOp' = "Get"
    /\ lastKey' = key /\ lastVal' = NoStr /\ lastErr' = "nil"
    /\ fault' = "none"
    /\ UNCHANGED <<data, dirOnDisk, fileOnDisk, content, saved, overwrote>>

\* A Put like Put that stores under the key without its white space
PutTrimmed(key, value) ==
    /\ IF IndexAny(key, {EQ, CR, LF}) > -1 \/ IndexAny(value, {CR, LF}) > -1
       THEN /\ lastErr' = "InvalidFormat"
            /\ data' = data
       ELSE /\ key \in DOMAIN data \/ Cardinality(DOMAIN data) < MaxEntries
            /\ lastErr' = "nil"
            /\ data' = Store(data, TrimSpace(key), value)
    /\ lastOp' = "Put"
    /\ lastKey' = key /\ lastVal' = value
    /\ ret' = NoRet /\ fault' = "none"
    /\ UNCHANGED <<dirOnDisk, fileOnDisk, content, saved, overwrote>>

\* A Put like Put that looks for the invalid characters in the key alone
PutKeyOnly(key, value) ==
    /\ IF IndexAny(key, {EQ, CR, LF}) > -1
       THEN /\ lastErr' = "InvalidFormat"
            /\ data' = data
       ELSE /\ key \in DOMAIN data \/ Cardinality(DOMAIN data) < MaxEntries
            /\ lastErr' = "nil"
            /\ data' = Store(data, key, value)
    /\ lastOp' = "Put"
    /\ lastKey' = key /\ lastVal' = value
    /\ ret' = NoRet /\ fault' = "none"
    /\ UNCHANGED <<dirOnDisk, fileOnDisk, content, saved, overwrote>>

\* Put.  The error of an invalid key or value is called InvalidFormat here.
\* A valid Put of a new key is taken only while the store has room.
Put(key, value) ==
    /\ IF IndexAny(key, {EQ, CR, LF}) > -1 \/ IndexAny(value, {CR, LF}) > -1
       THEN /\ lastErr' = "InvalidFormat"
            /\ data' = data
       ELSE /\ key \in DOMAIN data \/ Cardinality(DOMAIN data) < MaxEntries
            /\ lastErr' = "nil"
            /\ data' = Store(data, key, value)
    /\ lastOp' = "Put"
    /\ lastKey' = key /\ lastVal' = value
    /\ ret' = NoRet /\ fault' = "none"
    /\ UNCHANGED <<dirOnDisk, fileOnDisk, content, saved, overwrote>>

\* Load.  flt is the fault the filesystem answers with, failAt the ReadLine
\* call that fails when flt is "read".  A missing '=' is called ParseError,
\* an error of the filesystem IOError.
Load(flt, failAt) ==
    /\ (flt = "read") = (failAt > 0)
    /\ LET ex == fileExists(flt) IN
       IF ex.err # "nil"
       THEN /\ lastErr' = ex.err
            /\ UNCHANGED <<data, dirOnDisk>>
       ELSE IF ~ex.exists
       THEN /\ flt = "none" \/ (flt = "stat" /\ fileOnDisk)
            /\ lastErr' = "nil"
            /\ UNCHANGED <<data, dirOnDisk>>
       ELSE LET wf == withFile(flt, FALSE) IN
            IF ~wf.opened
            THEN /\ lastErr' = wf.err
                 /\ dirOnDisk' = wf.dir
                 /\ data' = data
            ELSE LET res == readLoop(data, content, 0, <<>>, 0, failAt) IN
                 /\ (flt = "read") = (res.err = "IOError")
                 /\ lastErr' = res.err
                 /\ data' = res.data
                 /\ dirOnDisk' = wf.dir
    /\ lastOp' = "Load"
    /\ lastKey' = NoStr /\ lastVal' = NoStr
    /\ ret' = NoRet /\ fault' = flt
    /\ UNCHANGED <<fileOnDisk, content, saved, overwrote>>

\* A Save like Save that opens the file without O_TRUNC
SaveNoTrunc(order, flt, cut) ==
    /\ order \in Orders(DOMAIN data)
    /\ LET wf  == withFile(flt, TRUE)
           out == Output(data, order)
       IN  IF ~wf.opened
           THEN /\ cut = 0
                /\ lastErr' = wf.err
                /\ dirOnDisk' = wf.dir
                /\ UNCHANGED <<fileOnDisk, content, saved, overwrote>>
           ELSE IF flt = "write"
           THEN /\ cut < Len(out)
                /\ overwrote' = (saved # NoSave /\ content # <<>>)
                /\ lastErr' = "IOError"
                /\ dirOnDisk' = wf.dir
                /\ fileOnDisk' = TRUE
                /\ content' = SubSeq(out, 1, cut)
                /\ saved' = NoSave
           ELSE /\ cut = 0
                /\ overwrote' = (saved # NoSave /\ content # <<>>)
                /\ lastErr' = "nil"
                /\ dirOnDisk' = wf.dir
                /\ fileOnDisk' = TRUE
                /\ content' = out \o SubSeq(content, Len(out) + 1, Len(content))
                /\ saved' = {data}
    /\ lastOp' = "Save"
    /\ lastKey' = NoStr /\ lastVal' = NoStr
    /\ ret' = NoRet /\ fault' = flt
    /\ data' = data

\* Save.  order is the order in which range visits the map; cut is the
\* number of bytes that reached the file when a write or the flush fails.
\* O_TRUNC empties the file when it is opened.
Save(order, flt, cut) ==
    /\ order \in Orders(DOMAIN data)
    /\ LET wf  == withFile(flt, TRUE)
           out == Output(data, order)
       IN  IF ~wf.opened
           THEN /\ cut = 0
                /\ lastErr' = wf.err
                /\ dirOnDisk' = wf.dir
                /\ UNCHANGED <<fileOnDisk, content, saved, overwrote>>
           ELSE IF flt = "write"
           THEN /\ cut < Len(out)
                /\ overwrote' = (saved # NoSave /\ content # <<>>)
                /\ lastErr' = "IOError"
                /\ dirOnDisk' = wf.dir
                /\ fileOnDisk' = TRUE
                /\ content' = SubSeq(out, 1, cut)
                /\ saved' = NoSave
           ELSE /\ cut = 0
                /\ overwrote' = (saved # NoSave /\ content # <<>>)
                /\ lastErr' = "nil"
                /\ dirOnDisk' = wf.dir
                /\ fileOnDisk' = TRUE
                /\ content' = out
                /\ saved' = {data}
    /\ lastOp' = "Save"
    /\ lastKey' = NoStr /\ lastVal' = NoStr
    /\ ret' = NoRet /\ fault' = flt
    /\ data' = data

----------------------------------------------------------------------------
(* Inputs *)

\* Keys and values the callers of Spec pass: the empty string, a blank one,
\* a plain one, a value with white space and '=', and one invalid each.
Keys == {<<>>, <<SP>>, <<"a">>, <<"a", EQ>>}
Values == {<<"a">>, <<SP, EQ>>, <<"a", LF>>}

\* Keys and values the callers of SpecPut pass: valid ones, empty, plain
\* and with white space at either end, and invalid ones with each invalid
\* character first and after another character.
AnyKeys ==
    {<<>>, <<"a">>, <<SP, "a">>, <<"a", SP>>}
        \cup {<<c>> : c \in {EQ, CR, LF}}
        \cup {<<"a", c>> : c \in {EQ, CR, LF}}
AnyValues ==
    {<<>>, <<SP>>, <<"a", EQ>>}
        \cup {<<c>> : c \in {CR, LF}}
        \cup {<<"a", c>> : c \in {CR, LF}}

\* The stores a program holds when it calls Load in SpecLoad
InitStores == {Empty, Store(Empty, <<"a">>, <<EQ>>)}

----------------------------------------------------------------------------
(* Specifications *)

\* A new store on a disk that holds no settings yet
Init ==
    /\ data = Empty
    /\ dirOnDisk = FALSE /\ fileOnDisk = FALSE /\ content = <<>>
    /\ lastOp = "New" /\ lastKey = NoStr /\ lastVal = NoStr
    /\ lastErr = "nil" /\ ret = NoRet /\ fault = "none"
    /\ saved = NoSave /\ overwrote = FALSE
    /\ ops = 0

LoadAny ==
    \E flt \in LoadFaults, failAt \in 0..(Len(content) + 1) : Load(flt, failAt)

SaveAny ==
    \E flt \in SaveFaults, order \in Orders(DOMAIN data) :
      \E cut \in (IF flt = "write" THEN 0..Len(Output(data, order)) ELSE {0}) :
        Save(order, flt, cut)

\* One more call is made
Tick == ops < MaxOps /\ ops' = ops + 1

\* One program that creates stores, puts, gets, saves and loads its settings
Next ==
    \/ Tick /\ NewIniFileSettings
    \/ \E key \in Keys : Tick /\ Get(key)
    \/ \E key \in Keys, value \in Values : Tick /\ Put(key, value)
    \/ Tick /\ LoadAny
    \/ Tick /\ SaveAny

Spec == Init /\ [][Next]_vars

\* The in-memory store alone, with keys and values of every shape
NextPut ==
    \/ NewIniFileSettings /\ UNCHANGED ops
    \/ \E key \in AnyKeys : Get(key) /\ UNCHANGED ops
    \/ \E key \in AnyKeys, value \in AnyValues : Put(key, value) /\ UNCHANGED ops

SpecPut == Init /\ [][NextPut]_vars

\* A store that loads a settings file found on disk, written by anyone
InitLoad ==
    /\ data \in InitStores
    /\ fileOnDisk \in BOOLEAN
    /\ dirOnDisk \in BOOLEAN
    /\ fileOnDisk => dirOnDisk
    /\ content \in Strs(MaxFileLen)
    /\ ~fileOnDisk => content = <<>>
    /\ lastOp = "New" /\ lastKey = NoStr /\ lastVal = NoStr
    /\ lastErr = "nil" /\ ret = NoRet /\ fault = "none"
    /\ saved = NoSave /\ overwrote = FALSE
    /\ ops = 0

NextLoad == LoadAny /\ UNCHANGED ops

SpecLoad == InitLoad /\ [][NextLoad]_vars

----------------------------------------------------------------------------
(* What the claims speak of *)

Chars(s) == {s[i] : i \in 1..Len(s)}

ValidKey(k) == Chars(k) \cap {EQ, CR, LF} = {}
ValidValue(v) == Chars(v) \cap {CR, LF} = {}

Pairs(m) == {<<k, m[k]>> : k \in DOMAIN m}
StrippedKeys(m) == {TrimSpace(k) : k \in DOMAIN m}
StrippedPairs(m) == {<<TrimSpace(k), TrimSpace(m[k])>> : k \in DOMAIN m}

\* The lines of a file: each ends at a LF, a CR right before the LF belongs
\* to the line end, and bytes after the last LF are a last line.
RECURSIVE FileLines(_)
FileLines(c) ==
    IF c = <<>> THEN <<>>
    ELSE LET ends == {i \in 1..Len(c) : c[i] = LF} IN
         IF ends = {} THEN <<c>>
         ELSE LET e    == Min(ends)
                  body == SubSeq(c, 1, e - 1)
                  line == IF body # <<>> /\ body[Len(body)] = CR
                          THEN SubSeq(body, 1, Len(body) - 1) ELSE body
              IN  <<line>> \o FileLines(SubSeq(c, e + 1, Len(c)))

HasEq(l) == EQ \in Chars(l)
FirstEq(l) == Min({i \in 1..Len(l) : l[i] = EQ})
KeyOf(l) == TrimSpace(SubSeq(l, 1, FirstEq(l) - 1))
ValOf(l) == TrimSpace(SubSeq(l, FirstEq(l) + 1, Len(l)))

\* What a Load without faults leaves in a new, empty store
FreshLoad(c) == readLoop(Empty, c, 0, <<>>, 0, 0)

----------------------------------------------------------------------------
(* Claims *)

\* C1: a Put of a key without '=', CR, LF and a value without CR, LF
\* succeeds, whatever the store holds, and a Get of that key called right
\* after it returns the value put and found = true.
C1_ValidPutThenGet ==
    [][ /\ (lastOp' = "Put" /\ ValidKey(lastKey') /\ ValidValue(lastVal'))
           => lastErr' = "nil"
        /\ (/\ lastOp = "Put" /\ ValidKey(lastKey) /\ ValidValue(lastVal)
            /\ lastOp' = "Get" /\ lastKey' = lastKey)
           => ret' = <<lastVal, TRUE>> ]_vars

\* A Get has found the value put under a key with leading white space
C1_Witness ==
    /\ lastOp = "Get" /\ lastKey = <<SP, "a">>
    /\ ret = <<<<"a", EQ>>, TRUE>>
    /\ Cardinality(DOMAIN data) = MaxEntries

\* C2: a Put whose key holds '=', CR or LF, or whose value holds CR or LF,
\* is rejected with InvalidFormat and leaves the map as it was.
C2_InvalidPutRejected ==
    [][ (lastOp' = "Put" /\ ~(ValidKey(lastKey') /\ ValidValue(lastVal')))
        => (lastErr' = "InvalidFormat" /\ data' = data) ]_vars

\* A Put on a store with entries was rejected for its value alone
C2_Witness ==
    /\ lastOp = "Put" /\ lastErr = "InvalidFormat"
    /\ ValidKey(lastKey) /\ ~ValidValue(lastVal)
    /\ data # Empty

\* C3 (as claimed): after a Save without fault, a Load without fault into
\* a new, empty store yields the saved map with every key and value
\* stripped of its leading and trailing white space, whatever the order in
\* which Save wrote the entries.
C3_RoundTripStripped ==
    [][ (/\ lastOp' = "Load" /\ lastErr' = "nil" /\ fault' = "none"
         /\ data = Empty /\ fileOnDisk /\ saved # NoSave)
        => \A m \in saved : Pairs(data') = StrippedPairs(m) ]_vars

\* C4: when the settings file does not exist (and its path is known), Load
\* returns nil, leaves the map as it was and creates neither the file nor
\* its directory.
C4_LoadWithoutFile ==
    [][ (lastOp' = "Load" /\ ~fileOnDisk /\ fault' # "path")
        => /\ lastErr' = "nil"
           /\ data' = data
           /\ ~fileOnDisk' /\ content' = content
           /\ dirOnDisk' = dirOnDisk ]_vars

\* A store with entries has loaded while there was no file
C4_Witness ==
    /\ lastOp = "Load" /\ fault = "none" /\ ~fileOnDisk
    /\ lastErr = "nil" /\ data # Empty

\* C5 (as claimed, for a Load that meets no fault): Load of an existing
\* file with a line that holds no '=', be it the first, a middle or the
\* last line, returns ParseError.
C5_LineWithoutEqFails ==
    (/\ lastOp = "Load" /\ fault = "none" /\ fileOnDisk
     /\ \E i \in 1..Len(FileLines(content)) : ~HasEq(FileLines(content)[i]))
    => lastErr = "ParseError"

\* C6 (as claimed): a Load that fails with ParseError leaves in the map no
\* key or value it has parsed from the lines before the failing line.
C6_FailedLoadDiscards ==
    [][ (lastOp' = "Load" /\ lastErr' = "ParseError") => data' = data ]_vars

\* C7 (as claimed): every fault of the filesystem met by Load or Save is
\* returned as an error; a Load of a file that does not exist meets no fault.
C7_FaultsReturned ==
    (lastOp \in {"Load", "Save"} /\ fault # "none") => lastErr # "nil"

\* C8 (as claimed): after a Save that succeeds on a file an earlier Save
\* had written, a Load into a new, empty store yields exactly the entries
\* the store held at that Save.
C8_SaveThenLoadExact ==
    (lastOp = "Save" /\ lastErr = "nil" /\ overwrote)
    => FreshLoad(content).data = data

\* C8 (amended): after a Save that succeeds, the file holds one line
\* key=value for each entry of the store and nothing else, whatever it held
\* before; a Load into a new, empty store succeeds and yields only stripped
\* entries of the store, one for every stripped key.
C8_SaveReplacesContent ==
    (lastOp = "Save" /\ lastErr = "nil")
    => /\ fileOnDisk
       /\ \E order \in Orders(DOMAIN data) : content = Output(data, order)
       /\ FreshLoad(content).err = "nil"
       /\ DOMAIN FreshLoad(content).data = StrippedKeys(data)
       /\ Pairs(FreshLoad(content).data) \subseteq StrippedPairs(data)

\* A Save of the empty store has emptied a file that held a saved store
C8_Witness ==
    /\ lastOp = "Save" /\ lastErr = "nil" /\ overwrote
    /\ data = Empty /\ content = <<>> /\ fileOnDisk

\* C9 (as claimed, for files without empty lines): a Load, without fault, of
\* an existing file whose every line holds '=' succeeds, and the store then
\* maps the stripped text before the first '=' of each line to the stripped
\* text after it, a later line winning over an earlier one of the same key.
C9_EveryLineLoaded ==
    LET L == FileLines(content) IN
    (/\ lastOp = "Load" /\ fault = "none" /\ fileOnDisk
     /\ \A i \in 1..Len(L) : HasEq(L[i]))
    => /\ lastErr = "nil"
       /\ \A i \in 1..Len(L) :
            /\ KeyOf(L[i]) \in DOMAIN data
            /\ data[KeyOf(L[i])] =
                 ValOf(L[Max({j \in 1..Len(L) : KeyOf(L[j]) = KeyOf(L[i])})])

\* C10 (as claimed): no key of the map holds '=', CR or LF and no value
\* holds CR or LF, whatever file Load has read.
C10_StoreInvariant ==
    \A k \in DOMAIN data : ValidKey(k) /\ ValidValue(data[k])

====
